---- MODULE Spec2Model ----
(***************************************************************************)
(* The Fidelity CSV extractor of beanhub-extract                             *)
(* (src/beanhub_extract/extractors/fidelity.py) as a state machine.          *)
(*                                                                           *)
(* A string is a sequence of one-character strings; the absent value (None)  *)
(* that csv.DictReader stores for a missing trailing column is the sequence  *)
(* None below, which no real string equals.  The stream is the sequence of   *)
(* CSV records of the file, each record the sequence of its column strings   *)
(* (splitting lines into records is csv.reader's work, not the extractor's). *)
(***************************************************************************)
EXTENDS Integers, Sequences, FiniteSets

VARIABLES
    stream,       \* input_file: the CSV records of the file as it is now
    pos,          \* input_file's position: records consumed since the last seek
    stream0,      \* the records of the file when the extractor was constructed
    fieldnames,   \* self.fieldnames
    row_count,    \* self._row_count
    filename,     \* self.filename
    g_state,      \* the extract() generator: "none", "created", "suspended", "done", "raised"
    g_i,          \* the generator's enumerate() index i
    g_out,        \* the Transactions the generator has yielded so far
    g_err,        \* the exception that ended the generator ("" when none)
    g_mixed,      \* another traversal moved the stream while the generator was suspended
    fp,           \* outcome of the last fingerprint() call
    det,          \* outcome of the last detect() call
    first_ex,     \* outcome of the first undisturbed, fully drained extract() on this content
    first_fp,     \* outcome of the first fingerprint() on this content
    abandoned,    \* an extract() generator was dropped while suspended, partly drained
    edits,        \* how many times the file was changed after construction
    arg,          \* input handed to a normalizer function
    op,           \* which normalizer was applied to arg: "none", "beanify", "beanify2", "decimal"
    b1,           \* beanify_account(arg)
    b2,           \* beanify_account(beanify_account(arg))
    dec           \* outcome of parse_to_decimal(arg)

xvars == <<stream, pos, stream0, fieldnames, row_count, filename, g_state, g_i, g_out, g_err,
           g_mixed, fp, det, first_ex, first_fp, abandoned, edits>>
pvars == <<arg, op, b1, b2, dec>>
vars == <<xvars, pvars>>

----------------------------------------------------------------------------
(* Bounds of the model. *)

\* longest generated input string of the normalizer functions
MaxStrLen == 3
\* most records in the file the extractor is constructed on
MaxRows == 2
\* most records in the file an extractor is constructed on when the file is
\* going to change afterwards
MaxBaseRows == 1
\* most changes made to the file after construction
MaxEdits == 1
\* most Transactions drawn from a generator whose stream another traversal moved
MaxYield == 3

----------------------------------------------------------------------------
(* Characters and strings. *)

None == <<"<None>">>

Lower == {"a","b","c","d","e","f","g","h","i","j","k","l","m",
          "n","o","p","q","r","s","t","u","v","w","x","y","z"}
Upper == {"A","B","C","D","E","F","G","H","I","J","K","L","M",
          "N","O","P","Q","R","S","T","U","V","W","X","Y","Z"}
Digits == {"0","1","2","3","4","5","6","7","8","9"}

DigitVal(c) ==
    CASE c = "0" -> 0 [] c = "1" -> 1 [] c = "2" -> 2 [] c = "3" -> 3 [] c = "4" -> 4
      [] c = "5" -> 5 [] c = "6" -> 6 [] c = "7" -> 7 [] c = "8" -> 8 [] c = "9" -> 9

DigitChar(n) == <<"0","1","2","3","4","5","6","7","8","9">>[n + 1]

\* the concatenation of the strings of the sequence ss
RECURSIVE Concat(_)
Concat(ss) == IF ss = <<>> THEN <<>> ELSE Head(ss) \o Concat(Tail(ss))

AllDigits(s) == \A k \in 1..Len(s) : s[k] \in Digits

\* the value of a string of decimal digits
RECURSIVE DigitsToInt(_)
DigitsToInt(s) ==
    IF s = <<>> THEN 0
    ELSE 10 * DigitsToInt(SubSeq(s, 1, Len(s) - 1)) + DigitVal(s[Len(s)])

\* a string of digits without its leading zeros
RECURSIVE StripZeros(_)
StripZeros(s) == IF s # <<>> /\ Head(s) = "0" THEN StripZeros(Tail(s)) ELSE s

\* A character outside the printable ASCII characters and \t \n \r \f is
\* written by its code point, "<U+0661>"; the vertical tab is "\\v".

\* the whitespace of C's isspace, which int() skips around a number
CWhitespace == {" ", "\t", "\n", "\r", "\\v", "\f"}

\* the decimal digits of Unicode (category Nd) other than 0-9, each script's
\* digits 0 to 9 in order
UnicodeDigitBlocks ==
    {
      <<"<U+0660>", "<U+0661>", "<U+0662>", "<U+0663>", "<U+0664>", "<U+0665>", "<U+0666>", "<U+0667>", "<U+0668>", "<U+0669>">>,
      <<"<U+06F0>", "<U+06F1>", "<U+06F2>", "<U+06F3>", "<U+06F4>", "<U+06F5>", "<U+06F6>", "<U+06F7>", "<U+06F8>", "<U+06F9>">>,
      <<"<U+07C0>", "<U+07C1>", "<U+07C2>", "<U+07C3>", "<U+07C4>", "<U+07C5>", "<U+07C6>", "<U+07C7>", "<U+07C8>", "<U+07C9>">>,
      <<"<U+0966>", "<U+0967>", "<U+0968>", "<U+0969>", "<U+096A>", "<U+096B>", "<U+096C>", "<U+096D>", "<U+096E>", "<U+096F>">>,
      <<"<U+09E6>", "<U+09E7>", "<U+09E8>", "<U+09E9>", "<U+09EA>", "<U+09EB>", "<U+09EC>", "<U+09ED>", "<U+09EE>", "<U+09EF>">>,
      <<"<U+0A66>", "<U+0A67>", "<U+0A68>", "<U+0A69>", "<U+0A6A>", "<U+0A6B>", "<U+0A6C>", "<U+0A6D>", "<U+0A6E>", "<U+0A6F>">>,
      <<"<U+0AE6>", "<U+0AE7>", "<U+0AE8>", "<U+0AE9>", "<U+0AEA>", "<U+0AEB>", "<U+0AEC>", "<U+0AED>", "<U+0AEE>", "<U+0AEF>">>,
      <<"<U+0B66>", "<U+0B67>", "<U+0B68>", "<U+0B69>", "<U+0B6A>", "<U+0B6B>", "<U+0B6C>", "<U+0B6D>", "<U+0B6E>", "<U+0B6F>">>,
      <<"<U+0BE6>", "<U+0BE7>", "<U+0BE8>", "<U+0BE9>", "<U+0BEA>", "<U+0BEB>", "<U+0BEC>", "<U+0BED>", "<U+0BEE>", "<U+0BEF>">>,
      <<"<U+0C66>", "<U+0C67>", "<U+0C68>", "<U+0C69>", "<U+0C6A>", "<U+0C6B>", "<U+0C6C>", "<U+0C6D>", "<U+0C6E>", "<U+0C6F>">>,
      <<"<U+0CE6>", "<U+0CE7>", "<U+0CE8>", "<U+0CE9>", "<U+0CEA>", "<U+0CEB>", "<U+0CEC>", "<U+0CED>", "<U+0CEE>", "<U+0CEF>">>,
      <<"<U+0D66>", "<U+0D67>", "<U+0D68>", "<U+0D69>", "<U+0D6A>", "<U+0D6B>", "<U+0D6C>", "<U+0D6D>", "<U+0D6E>", "<U+0D6F>">>,
      <<"<U+0DE6>", "<U+0DE7>", "<U+0DE8>", "<U+0DE9>", "<U+0DEA>", "<U+0DEB>", "<U+0DEC>", "<U+0DED>", "<U+0DEE>", "<U+0DEF>">>,
      <<"<U+0E50>", "<U+0E51>", "<U+0E52>", "<U+0E53>", "<U+0E54>", "<U+0E55>", "<U+0E56>", "<U+0E57>", "<U+0E58>", "<U+0E59>">>,
      <<"<U+0ED0>", "<U+0ED1>", "<U+0ED2>", "<U+0ED3>", "<U+0ED4>", "<U+0ED5>", "<U+0ED6>", "<U+0ED7>", "<U+0ED8>", "<U+0ED9>">>,
      <<"<U+0F20>", "<U+0F21>", "<U+0F22>", "<U+0F23>", "<U+0F24>", "<U+0F25>", "<U+0F26>", "<U+0F27>", "<U+0F28>", "<U+0F29>">>,
      <<"<U+1040>", "<U+1041>", "<U+1042>", "<U+1043>", "<U+1044>", "<U+1045>", "<U+1046>", "<U+1047>", "<U+1048>", "<U+1049>">>,
      <<"<U+1090>", "<U+1091>", "<U+1092>", "<U+1093>", "<U+1094>", "<U+1095>", "<U+1096>", "<U+1097>", "<U+1098>", "<U+1099>">>,
      <<"<U+17E0>", "<U+17E1>", "<U+17E2>", "<U+17E3>", "<U+17E4>", "<U+17E5>", "<U+17E6>", "<U+17E7>", "<U+17E8>", "<U+17E9>">>,
      <<"<U+1810>", "<U+1811>", "<U+1812>", "<U+1813>", "<U+1814>", "<U+1815>", "<U+1816>", "<U+1817>", "<U+1818>", "<U+1819>">>,
      <<"<U+1946>", "<U+1947>", "<U+1948>", "<U+1949>", "<U+194A>", "<U+194B>", "<U+194C>", "<U+194D>", "<U+194E>", "<U+194F>">>,
      <<"<U+19D0>", "<U+19D1>", "<U+19D2>", "<U+19D3>", "<U+19D4>", "<U+19D5>", "<U+19D6>", "<U+19D7>", "<U+19D8>", "<U+19D9>">>,
      <<"<U+1A80>", "<U+1A81>", "<U+1A82>", "<U+1A83>", "<U+1A84>", "<U+1A85>", "<U+1A86>", "<U+1A87>", "<U+1A88>", "<U+1A89>">>,
      <<"<U+1A90>", "<U+1A91>", "<U+1A92>", "<U+1A93>", "<U+1A94>", "<U+1A95>", "<U+1A96>", "<U+1A97>", "<U+1A98>", "<U+1A99>">>,
      <<"<U+1B50>", "<U+1B51>", "<U+1B52>", "<U+1B53>", "<U+1B54>", "<U+1B55>", "<U+1B56>", "<U+1B57>", "<U+1B58>", "<U+1B59>">>,
      <<"<U+1BB0>", "<U+1BB1>", "<U+1BB2>", "<U+1BB3>", "<U+1BB4>", "<U+1BB5>", "<U+1BB6>", "<U+1BB7>", "<U+1BB8>", "<U+1BB9>">>,
      <<"<U+1C40>", "<U+1C41>", "<U+1C42>", "<U+1C43>", "<U+1C44>", "<U+1C45>", "<U+1C46>", "<U+1C47>", "<U+1C48>", "<U+1C49>">>,
      <<"<U+1C50>", "<U+1C51>", "<U+1C52>", "<U+1C53>", "<U+1C54>", "<U+1C55>", "<U+1C56>", "<U+1C57>", "<U+1C58>", "<U+1C59>">>,
      <<"<U+A620>", "<U+A621>", "<U+A622>", "<U+A623>", "<U+A624>", "<U+A625>", "<U+A626>", "<U+A627>", "<U+A628>", "<U+A629>">>,
      <<"<U+A8D0>", "<U+A8D1>", "<U+A8D2>", "<U+A8D3>", "<U+A8D4>", "<U+A8D5>", "<U+A8D6>", "<U+A8D7>", "<U+A8D8>", "<U+A8D9>">>,
      <<"<U+A900>", "<U+A901>", "<U+A902>", "<U+A903>", "<U+A904>", "<U+A905>", "<U+A906>", "<U+A907>", "<U+A908>", "<U+A909>">>,
      <<"<U+A9D0>", "<U+A9D1>", "<U+A9D2>", "<U+A9D3>", "<U+A9D4>", "<U+A9D5>", "<U+A9D6>", "<U+A9D7>", "<U+A9D8>", "<U+A9D9>">>,
      <<"<U+A9F0>", "<U+A9F1>", "<U+A9F2>", "<U+A9F3>", "<U+A9F4>", "<U+A9F5>", "<U+A9F6>", "<U+A9F7>", "<U+A9F8>", "<U+A9F9>">>,
      <<"<U+AA50>", "<U+AA51>", "<U+AA52>", "<U+AA53>", "<U+AA54>", "<U+AA55>", "<U+AA56>", "<U+AA57>", "<U+AA58>", "<U+AA59>">>,
      <<"<U+ABF0>", "<U+ABF1>", "<U+ABF2>", "<U+ABF3>", "<U+ABF4>", "<U+ABF5>", "<U+ABF6>", "<U+ABF7>", "<U+ABF8>", "<U+ABF9>">>,
      <<"<U+FF10>", "<U+FF11>", "<U+FF12>", "<U+FF13>", "<U+FF14>", "<U+FF15>", "<U+FF16>", "<U+FF17>", "<U+FF18>", "<U+FF19>">>,
      <<"<U+104A0>", "<U+104A1>", "<U+104A2>", "<U+104A3>", "<U+104A4>", "<U+104A5>", "<U+104A6>", "<U+104A7>", "<U+104A8>", "<U+104A9>">>,
      <<"<U+10D30>", "<U+10D31>", "<U+10D32>", "<U+10D33>", "<U+10D34>", "<U+10D35>", "<U+10D36>", "<U+10D37>", "<U+10D38>", "<U+10D39>">>,
      <<"<U+11066>", "<U+11067>", "<U+11068>", "<U+11069>", "<U+1106A>", "<U+1106B>", "<U+1106C>", "<U+1106D>", "<U+1106E>", "<U+1106F>">>,
      <<"<U+110F0>", "<U+110F1>", "<U+110F2>", "<U+110F3>", "<U+110F4>", "<U+110F5>", "<U+110F6>", "<U+110F7>", "<U+110F8>", "<U+110F9>">>,
      <<"<U+11136>", "<U+11137>", "<U+11138>", "<U+11139>", "<U+1113A>", "<U+1113B>", "<U+1113C>", "<U+1113D>", "<U+1113E>", "<U+1113F>">>,
      <<"<U+111D0>", "<U+111D1>", "<U+111D2>", "<U+111D3>", "<U+111D4>", "<U+111D5>", "<U+111D6>", "<U+111D7>", "<U+111D8>", "<U+111D9>">>,
      <<"<U+112F0>", "<U+112F1>", "<U+112F2>", "<U+112F3>", "<U+112F4>", "<U+112F5>", "<U+112F6>", "<U+112F7>", "<U+112F8>", "<U+112F9>">>,
      <<"<U+11450>", "<U+11451>", "<U+11452>", "<U+11453>", "<U+11454>", "<U+11455>", "<U+11456>", "<U+11457>", "<U+11458>", "<U+11459>">>,
      <<"<U+114D0>", "<U+114D1>", "<U+114D2>", "<U+114D3>", "<U+114D4>", "<U+114D5>", "<U+114D6>", "<U+114D7>", "<U+114D8>", "<U+114D9>">>,
      <<"<U+11650>", "<U+11651>", "<U+11652>", "<U+11653>", "<U+11654>", "<U+11655>", "<U+11656>", "<U+11657>", "<U+11658>", "<U+11659>">>,
      <<"<U+116C0>", "<U+116C1>", "<U+116C2>", "<U+116C3>", "<U+116C4>", "<U+116C5>", "<U+116C6>", "<U+116C7>", "<U+116C8>", "<U+116C9>">>,
      <<"<U+11730>", "<U+11731>", "<U+11732>", "<U+11733>", "<U+11734>", "<U+11735>", "<U+11736>", "<U+11737>", "<U+11738>", "<U+11739>">>,
      <<"<U+118E0>", "<U+118E1>", "<U+118E2>", "<U+118E3>", "<U+118E4>", "<U+118E5>", "<U+118E6>", "<U+118E7>", "<U+118E8>", "<U+118E9>">>,
      <<"<U+11950>", "<U+11951>", "<U+11952>", "<U+11953>", "<U+11954>", "<U+11955>", "<U+11956>", "<U+11957>", "<U+11958>", "<U+11959>">>,
      <<"<U+11C50>", "<U+11C51>", "<U+11C52>", "<U+11C53>", "<U+11C54>", "<U+11C55>", "<U+11C56>", "<U+11C57>", "<U+11C58>", "<U+11C59>">>,
      <<"<U+11D50>", "<U+11D51>", "<U+11D52>", "<U+11D53>", "<U+11D54>", "<U+11D55>", "<U+11D56>", "<U+11D57>", "<U+11D58>", "<U+11D59>">>,
      <<"<U+11DA0>", "<U+11DA1>", "<U+11DA2>", "<U+11DA3>", "<U+11DA4>", "<U+11DA5>", "<U+11DA6>", "<U+11DA7>", "<U+11DA8>", "<U+11DA9>">>,
      <<"<U+16A60>", "<U+16A61>", "<U+16A62>", "<U+16A63>", "<U+16A64>", "<U+16A65>", "<U+16A66>", "<U+16A67>", "<U+16A68>", "<U+16A69>">>,
      <<"<U+16AC0>", "<U+16AC1>", "<U+16AC2>", "<U+16AC3>", "<U+16AC4>", "<U+16AC5>", "<U+16AC6>", "<U+16AC7>", "<U+16AC8>", "<U+16AC9>">>,
      <<"<U+16B50>", "<U+16B51>", "<U+16B52>", "<U+16B53>", "<U+16B54>", "<U+16B55>", "<U+16B56>", "<U+16B57>", "<U+16B58>", "<U+16B59>">>,
      <<"<U+1D7CE>", "<U+1D7CF>", "<U+1D7D0>", "<U+1D7D1>", "<U+1D7D2>", "<U+1D7D3>", "<U+1D7D4>", "<U+1D7D5>", "<U+1D7D6>", "<U+1D7D7>">>,
      <<"<U+1D7D8>", "<U+1D7D9>", "<U+1D7DA>", "<U+1D7DB>", "<U+1D7DC>", "<U+1D7DD>", "<U+1D7DE>", "<U+1D7DF>", "<U+1D7E0>", "<U+1D7E1>">>,
      <<"<U+1D7E2>", "<U+1D7E3>", "<U+1D7E4>", "<U+1D7E5>", "<U+1D7E6>", "<U+1D7E7>", "<U+1D7E8>", "<U+1D7E9>", "<U+1D7EA>", "<U+1D7EB>">>,
      <<"<U+1D7EC>", "<U+1D7ED>", "<U+1D7EE>", "<U+1D7EF>", "<U+1D7F0>", "<U+1D7F1>", "<U+1D7F2>", "<U+1D7F3>", "<U+1D7F4>", "<U+1D7F5>">>,
      <<"<U+1D7F6>", "<U+1D7F7>", "<U+1D7F8>", "<U+1D7F9>", "<U+1D7FA>", "<U+1D7FB>", "<U+1D7FC>", "<U+1D7FD>", "<U+1D7FE>", "<U+1D7FF>">>,
      <<"<U+1E140>", "<U+1E141>", "<U+1E142>", "<U+1E143>", "<U+1E144>", "<U+1E145>", "<U+1E146>", "<U+1E147>", "<U+1E148>", "<U+1E149>">>,
      <<"<U+1E2F0>", "<U+1E2F1>", "<U+1E2F2>", "<U+1E2F3>", "<U+1E2F4>", "<U+1E2F5>", "<U+1E2F6>", "<U+1E2F7>", "<U+1E2F8>", "<U+1E2F9>">>,
      <<"<U+1E950>", "<U+1E951>", "<U+1E952>", "<U+1E953>", "<U+1E954>", "<U+1E955>", "<U+1E956>", "<U+1E957>", "<U+1E958>", "<U+1E959>">>,
      <<"<U+1FBF0>", "<U+1FBF1>", "<U+1FBF2>", "<U+1FBF3>", "<U+1FBF4>", "<U+1FBF5>", "<U+1FBF6>", "<U+1FBF7>", "<U+1FBF8>", "<U+1FBF9>">>
    }

UnicodeDigits == UNION {{b[k] : k \in 1..10} : b \in UnicodeDigitBlocks}

\* the whitespace beyond ASCII
UnicodeWhitespace ==
    {"<U+0085>", "<U+00A0>", "<U+1680>", "<U+2000>", "<U+2001>", "<U+2002>", "<U+2003>",
     "<U+2004>", "<U+2005>", "<U+2006>", "<U+2007>", "<U+2008>", "<U+2009>", "<U+200A>",
     "<U+2028>", "<U+2029>", "<U+202F>", "<U+205F>", "<U+3000>"}

\* the whitespace of str.isspace, which decimal.Decimal() skips around a number
PyWhitespace ==
    CWhitespace \cup {"<U+001C>", "<U+001D>", "<U+001E>", "<U+001F>"} \cup UnicodeWhitespace

\* the digit 0-9 that a decimal digit of Unicode stands for
UnicodeDigitToAscii(c) ==
    LET b == CHOOSE x \in UnicodeDigitBlocks : \E k \in 1..10 : x[k] = c
    IN  DigitChar((CHOOSE k \in 1..10 : b[k] = c) - 1)

\* what int() and decimal.Decimal() make of a character before they parse: a
\* digit of any script is its ASCII digit, whitespace beyond ASCII is a space
TransformDecimalAndSpaceToASCII(s) ==
    [k \in 1..Len(s) |->
        IF s[k] \in UnicodeWhitespace THEN " "
        ELSE IF s[k] \in UnicodeDigits THEN UnicodeDigitToAscii(s[k])
        ELSE s[k]]

\* s without the characters of class ws at its two ends
RECURSIVE StripWs(_, _)
StripWs(s, ws) ==
    IF s = <<>> THEN s
    ELSE IF Head(s) \in ws THEN StripWs(Tail(s), ws)
    ELSE IF s[Len(s)] \in ws THEN StripWs(SubSeq(s, 1, Len(s) - 1), ws)
    ELSE s

----------------------------------------------------------------------------
(* beanify_account *)

\* a character class that keeps the space and drops the hyphen
AllowedCharSpaceForHyphen(c) == c \in Lower \cup Upper \cup Digits \cup {" ", "_", ":"}

\* line 15: the characters the pattern [^a-zA-Z0-9-_:] leaves in place
AllowedChar(c) == c \in Lower \cup Upper \cup Digits \cup {"-", "_", ":"}

\* line 15: re.sub(r"[^a-zA-Z0-9-_:]", "", name)
RECURSIVE StripDisallowed(_)
StripDisallowed(s) ==
    IF s = <<>> THEN <<>>
    ELSE IF AllowedChar(Head(s)) THEN <<Head(s)>> \o StripDisallowed(Tail(s))
    ELSE StripDisallowed(Tail(s))

\* line 16: the class [ \t\n\r\v\f]
WhitespaceClass == {" ", "\t", "\n", "\r", "\\v", "\f"}

\* line 16: re.sub(r"[ \t\n\r\v\f]", " ", rst)
WhitespaceToSpace(s) ==
    [k \in 1..Len(s) |-> IF s[k] \in WhitespaceClass THEN " " ELSE s[k]]

\* line 17: re.sub(r"[ ]{2,}", " ", rst)
RECURSIVE CollapseSpaces(_)
CollapseSpaces(s) ==
    IF Len(s) < 2 THEN s
    ELSE IF s[1] = " " /\ s[2] = " " THEN CollapseSpaces(Tail(s))
    ELSE <<Head(s)>> \o CollapseSpaces(Tail(s))

\* line 18: rst.replace(" ", "-")
SpaceToHyphen(s) == [k \in 1..Len(s) |-> IF s[k] = " " THEN "-" ELSE s[k]]

\* lines 14-19, for a string name (re.sub raises TypeError on None: see ProcessRow)
beanify_account(name) ==
    SpaceToHyphen(CollapseSpaces(WhitespaceToSpace(StripDisallowed(name))))

----------------------------------------------------------------------------
(* parse_date *)

\* date_str.split("/")
RECURSIVE Split(_)
Split(s) ==
    IF \A k \in 1..Len(s) : s[k] # "/" THEN <<s>>
    ELSE LET k == CHOOSE j \in 1..Len(s) :
                      s[j] = "/" /\ \A h \in 1..(j - 1) : s[h] # "/"
         IN  <<SubSeq(s, 1, k - 1)>> \o Split(SubSeq(s, k + 1, Len(s)))

RECURSIVE RemoveUnderscores(_)
RemoveUnderscores(s) ==
    IF s = <<>> THEN <<>>
    ELSE IF Head(s) = "_" THEN RemoveUnderscores(Tail(s))
    ELSE <<Head(s)>> \o RemoveUnderscores(Tail(s))

IntInvalid == [ok |-> FALSE, neg |-> FALSE, digits |-> <<>>]

\* the integer of sign neg whose magnitude the digits d write: digits is the
\* magnitude without leading zeros (empty for 0)
IntOfDigits(neg, d) == [ok |-> TRUE, neg |-> neg /\ d # <<>>, digits |-> d]

\* the digits of an integer: decimal digits that single underscores may
\* separate, at most 4300 digits (sys.int_info.default_max_str_digits)
ToIntUnsigned(neg, u) ==
    IF /\ u # <<>>
       /\ \A k \in 1..Len(u) : u[k] \in Digits \cup {"_"}
       /\ u[1] # "_" /\ u[Len(u)] # "_"
       /\ \A k \in 1..(Len(u) - 1) : ~(u[k] = "_" /\ u[k + 1] = "_")
       /\ Len(RemoveUnderscores(u)) <= 4300
    THEN IntOfDigits(neg, StripZeros(RemoveUnderscores(u)))
    ELSE IntInvalid

\* an optional sign and the digits
ToIntSigned(t) ==
    IF t # <<>> /\ t[1] \in {"-", "+"} THEN ToIntUnsigned(t[1] = "-", Tail(t))
    ELSE ToIntUnsigned(FALSE, t)

\* int(s) for a string s: whitespace around, an optional sign, and digits.
\* ok = FALSE stands for ValueError.
ToInt(s) == ToIntSigned(StripWs(TransformDecimalAndSpaceToASCII(s), CWhitespace))

\* a <= b for two strings of digits of one length
RECURSIVE DigitsLeq(_, _)
DigitsLeq(a, b) ==
    IF a = <<>> THEN TRUE
    ELSE IF DigitVal(Head(a)) # DigitVal(Head(b)) THEN DigitVal(Head(a)) < DigitVal(Head(b))
    ELSE DigitsLeq(Tail(a), Tail(b))

\* the integer n fits the C int that datetime.date takes: -2^31 <= n < 2^31
FitsCInt(n) ==
    \/ Len(n.digits) < 10
    \/ /\ Len(n.digits) = 10
       /\ DigitsLeq(n.digits, IF n.neg THEN <<"2","1","4","7","4","8","3","6","4","8">>
                                       ELSE <<"2","1","4","7","4","8","3","6","4","7">>)

IsLeap(y) == (y % 4 = 0 /\ y % 100 # 0) \/ y % 400 = 0

DaysInMonth(y, m) ==
    IF m = 2 THEN (IF IsLeap(y) THEN 29 ELSE 28)
    ELSE IF m \in {4, 6, 9, 11} THEN 30 ELSE 31

\* datetime.date(y, m, d) accepts the triple of C ints
ValidDate(y, m, d) ==
    /\ ~y.neg /\ ~m.neg /\ ~d.neg
    /\ Len(y.digits) <= 4 /\ Len(m.digits) <= 2 /\ Len(d.digits) <= 2
    /\ DigitsToInt(y.digits) \in 1..9999   \* datetime.MINYEAR..datetime.MAXYEAR
    /\ DigitsToInt(m.digits) \in 1..12
    /\ DigitsToInt(d.digits) \in 1..DaysInMonth(DigitsToInt(y.digits), DigitsToInt(m.digits))

DateRaised(e) == [ok |-> FALSE, exc |-> e, year |-> 0, month |-> 0, day |-> 0]

\* datetime.date(*args): TypeError for other than three arguments,
\* OverflowError for an argument that is no C int (the arguments are converted
\* one after the other before a missing one is noticed), ValueError for no
\* calendar day
datetime_date(args) ==
    IF Len(args) > 3 THEN DateRaised("TypeError")
    ELSE IF \E k \in 1..Len(args) : ~FitsCInt(args[k]) THEN DateRaised("OverflowError")
    ELSE IF Len(args) < 3 THEN DateRaised("TypeError")
    ELSE IF ~ValidDate(args[1], args[2], args[3]) THEN DateRaised("ValueError")
    ELSE [ok |-> TRUE, exc |-> "",
          year |-> DigitsToInt(args[1].digits),
          month |-> DigitsToInt(args[2].digits),
          day |-> DigitsToInt(args[3].digits)]

\* line 24: int(parts[-1]), then int of each of parts[:-1]
DateArgs(parts) ==
    [k \in 1..Len(parts) |-> ToInt(parts[IF k = 1 THEN Len(parts) ELSE k - 1])]

\* line 24: int() raises ValueError before datetime.date is called
DateOfInts(args) ==
    IF \E k \in 1..Len(args) : ~args[k].ok THEN DateRaised("ValueError")
    ELSE datetime_date(args)

\* lines 22-24: the string is split at "/", the last part is the year and the
\* parts before it the month and the day, each read by int()
parse_date(date_str) == DateOfInts(DateArgs(Split(date_str)))

\* [0-9]{1,2}/[0-9]{1,2}/[0-9]{4} on the parts between the "/" of a string
DatePatternParts(parts) ==
    /\ Len(parts) = 3
    /\ \A k \in 1..3 : AllDigits(parts[k])
    /\ Len(parts[1]) \in 1..2
    /\ Len(parts[2]) \in 1..2
    /\ Len(parts[3]) = 4

\* line 98: re.match(r"^[0-9]{1,2}/[0-9]{1,2}/[0-9]{4}$", date); $ also matches
\* just before a newline that ends the string
MatchesDatePattern(date) ==
    DatePatternParts(Split(IF date # <<>> /\ date[Len(date)] = "\n"
                           THEN SubSeq(date, 1, Len(date) - 1) ELSE date))

----------------------------------------------------------------------------
(* parse_to_decimal *)

\* upper case of the letters the numeric-string grammar of decimal.Decimal names
FoldCase(c) ==
    CASE c = "e" -> "E" [] c = "i" -> "I" [] c = "n" -> "N" [] c = "f" -> "F"
      [] c = "t" -> "T" [] c = "y" -> "Y" [] c = "a" -> "A" [] c = "s" -> "S"
      [] OTHER -> c

\* the first position of character c in s, 0 when there is none
FirstIndex(s, c) ==
    IF \E k \in 1..Len(s) : s[k] = c
    THEN CHOOSE k \in 1..Len(s) : s[k] = c /\ \A h \in 1..(k - 1) : s[h] # c
    ELSE 0

\* An exponent of a Decimal is an integer of up to 19 digits, wider than the
\* integers TLC computes with: it is held as hi * 10^9 + lo, 0 <= lo < 10^9.
Billion == 10 ^ 9

\* the wide integer equal to the integer n
Wide(n) == [hi |-> n \div Billion, lo |-> n % Billion]

\* w + d for an integer d below 10^9 in size
WideAdd(w, d) ==
    [hi |-> w.hi + ((w.lo + d) \div Billion), lo |-> (w.lo + d) % Billion]

WideLeq(a, b) == a.hi < b.hi \/ (a.hi = b.hi /\ a.lo <= b.lo)

\* the wide integer written by the digits ds (no leading zeros, below
\* 2 * 10^18), negated when neg
WideOfDigits(neg, ds) ==
    LET n == Len(ds)
        lo == DigitsToInt(IF n > 9 THEN SubSeq(ds, n - 8, n) ELSE ds)
        hi == IF n > 9 THEN DigitsToInt(SubSeq(ds, 1, n - 9)) ELSE 0
    IN  IF ~neg THEN [hi |-> hi, lo |-> lo]
        ELSE IF lo = 0 THEN [hi |-> 0 - hi, lo |-> 0]
        ELSE [hi |-> 0 - hi - 1, lo |-> Billion - lo]

\* decimal.MAX_EMAX = 999999999999999999
MAX_EMAX == [hi |-> Billion - 1, lo |-> Billion - 1]

\* decimal.MIN_ETINY = -1999999999999999997
MIN_ETINY == [hi |-> 0 - 2 * Billion, lo |-> 3]

\* the digits of a coefficient as as_tuple() gives them
DigitTuple(ds) == [k \in 1..Len(ds) |-> DigitVal(ds[k])]

\* Decimal("0.0")
DecZero == [kind |-> "finite", sign |-> 0, digits |-> <<0>>, exp |-> Wide(0 - 1)]
DecInvalid == [ok |-> FALSE, value |-> DecZero]

\* a finite number of coefficient digits digs and exponent e: the conversion
\* is exact, and is refused when the number is outside what the widest context
\* holds (exponent below MIN_ETINY, or adjusted exponent above MAX_EMAX)
DecimalExact(sign, digs, e) ==
    IF WideLeq(MIN_ETINY, e) /\ WideLeq(WideAdd(e, Len(digs) - 1), MAX_EMAX)
    THEN [ok |-> TRUE,
          value |-> [kind |-> "finite", sign |-> sign,
                     digits |-> DigitTuple(digs), exp |-> e]]
    ELSE DecInvalid

\* coefficient digits digs, fd of them after the point, and the written
\* exponent x (no leading zeros), negative when xneg; an exponent of 2 * 10^18
\* or more in size is outside every range
DecimalFinite(sign, digs, fd, xneg, x) ==
    IF Len(x) <= 19 /\ (Len(x) = 19 => x[1] = "1")
    THEN DecimalExact(sign, digs, WideAdd(WideOfDigits(xneg, x), 0 - fd))
    ELSE DecInvalid

\* the digits of a coefficient without its leading zeros
Coefficient(cd) == IF StripZeros(cd) = <<>> THEN <<"0">> ELSE StripZeros(cd)

\* digits before and after the point, at least one digit in all
DecimalDigits(sign, int, frac, xneg, xd) ==
    IF AllDigits(int) /\ AllDigits(frac) /\ Len(int) + Len(frac) >= 1
    THEN DecimalFinite(sign, Coefficient(int \o frac), Len(frac), xneg, StripZeros(xd))
    ELSE DecInvalid

\* the part before the exponent: digits with an optional point
DecimalMantissa(sign, mant, xneg, xd) ==
    IF FirstIndex(mant, ".") = 0 THEN DecimalDigits(sign, mant, <<>>, xneg, xd)
    ELSE DecimalDigits(sign, SubSeq(mant, 1, FirstIndex(mant, ".") - 1),
                       SubSeq(mant, FirstIndex(mant, ".") + 1, Len(mant)), xneg, xd)

\* the exponent after its sign: at least one digit
DecimalExponentDigits(sign, mant, xneg, xd) ==
    IF xd # <<>> /\ AllDigits(xd) THEN DecimalMantissa(sign, mant, xneg, xd)
    ELSE DecInvalid

\* the part after the E: an optional sign and digits
DecimalExponent(sign, mant, ex) ==
    IF ex # <<>> /\ ex[1] \in {"-", "+"}
    THEN DecimalExponentDigits(sign, mant, ex[1] = "-", Tail(ex))
    ELSE DecimalExponentDigits(sign, mant, FALSE, ex)

\* NaN or sNaN with its diagnostic digits (the payload)
DecimalNaN(kind, sign, payload) ==
    [ok |-> TRUE,
     value |-> [kind |-> kind, sign |-> sign,
                digits |-> DigitTuple(StripZeros(payload)), exp |-> Wide(0)]]

\* an unsigned numeric string: digits with an optional fraction and an
\* optional exponent E[+-]digits; or Inf, Infinity; or NaN, sNaN with optional
\* diagnostic digits
DecimalUnsigned(sign, u) ==
    IF u \in {<<"I", "N", "F">>, <<"I", "N", "F", "I", "N", "I", "T", "Y">>}
    THEN [ok |-> TRUE,
          value |-> [kind |-> "infinity", sign |-> sign, digits |-> <<0>>,
                     exp |-> Wide(0)]]
    ELSE IF Len(u) >= 3 /\ SubSeq(u, 1, 3) = <<"N", "A", "N">>
            /\ AllDigits(SubSeq(u, 4, Len(u)))
    THEN DecimalNaN("nan", sign, SubSeq(u, 4, Len(u)))
    ELSE IF Len(u) >= 4 /\ SubSeq(u, 1, 4) = <<"S", "N", "A", "N">>
            /\ AllDigits(SubSeq(u, 5, Len(u)))
    THEN DecimalNaN("snan", sign, SubSeq(u, 5, Len(u)))
    ELSE IF FirstIndex(u, "E") = 0 THEN DecimalMantissa(sign, u, FALSE, <<>>)
    ELSE DecimalExponent(sign, SubSeq(u, 1, FirstIndex(u, "E") - 1),
                         SubSeq(u, FirstIndex(u, "E") + 1, Len(u)))

FoldCaseAll(s) == [k \in 1..Len(s) |-> FoldCase(s[k])]

\* an optional sign and an unsigned numeric string, letters in either case
DecimalSigned(t) ==
    IF t # <<>> /\ t[1] \in {"-", "+"}
    THEN DecimalUnsigned(IF t[1] = "-" THEN 1 ELSE 0, FoldCaseAll(Tail(t)))
    ELSE DecimalUnsigned(0, FoldCaseAll(t))

\* decimal.Decimal(s) for a string s: the whitespace around it and its
\* underscores are dropped and the digits of any script read as 0-9.
\* ok = FALSE stands for decimal.InvalidOperation.
Decimal(s) ==
    DecimalSigned(TransformDecimalAndSpaceToASCII(RemoveUnderscores(StripWs(s, PyWhitespace))))

\* lines 30-33: InvalidOperation (and ValueError) give Decimal("0.0")
DecimalOrZero(d) == [raised |-> "", value |-> IF d.ok THEN d.value ELSE DecZero]

\* lines 27-33; the TypeError that decimal.Decimal raises for None is not caught
parse_to_decimal(number_str) ==
    IF number_str = None THEN [raised |-> "TypeError", value |-> DecZero]
    ELSE DecimalOrZero(Decimal(number_str))

----------------------------------------------------------------------------
(* The schema and the records the files of the model are made of. *)

\* lines 42-61
ALL_FIELDS ==
    << <<"R", "u", "n", " ", "D", "a", "t", "e">>,
       <<"A", "c", "c", "o", "u", "n", "t">>,
       <<"A", "c", "c", "o", "u", "n", "t", " ", "N", "u", "m", "b", "e", "r">>,
       <<"A", "c", "t", "i", "o", "n">>,
       <<"S", "y", "m", "b", "o", "l">>,
       <<"D", "e", "s", "c", "r", "i", "p", "t", "i", "o", "n">>,
       <<"T", "y", "p", "e">>,
       <<"E", "x", "c", "h", "a", "n", "g", "e", " ", "Q", "u", "a", "n", "t", "i", "t", "y">>,
       <<"E", "x", "c", "h", "a", "n", "g", "e", " ", "C", "u", "r", "r", "e", "n", "c", "y">>,
       <<"C", "u", "r", "r", "e", "n", "c", "y">>,
       <<"P", "r", "i", "c", "e">>,
       <<"Q", "u", "a", "n", "t", "i", "t", "y">>,
       <<"E", "x", "c", "h", "a", "n", "g", "e", " ", "R", "a", "t", "e">>,
       <<"C", "o", "m", "m", "i", "s", "s", "i", "o", "n">>,
       <<"F", "e", "e", "s">>,
       <<"A", "c", "c", "r", "u", "e", "d", " ", "I", "n", "t", "e", "r", "e", "s", "t">>,
       <<"A", "m", "o", "u", "n", "t">>,
       <<"S", "e", "t", "t", "l", "e", "m", "e", "n", "t", " ", "D", "a", "t", "e">> >>

\* line 41
DATE_FIELD == ALL_FIELDS[1]

\* line 39
EXTRACTOR_NAME == "fidelity"

\* The input_file handed to the constructor, as far as lines 69-75 look at it:
\* name is its attribute name and path is the path it is when it is no stream
\* but a path, NoSuch when it has no attribute name, or is no path.
NoSuch == <<"<no such>">>

\* a stream with a name (an open file: the path it was opened by), and one
\* without (io.StringIO)
NamedStream == [name |-> <<"o", "u", "t", "/", "f", ".", "c", "s", "v">>, path |-> NoSuch]
NamelessStream == [name |-> NoSuch, path |-> NoSuch]
InputFiles == {NamedStream, NamelessStream}

\* the input_file object itself
InputFileObject == <<"<input_file>">>

\* os.path.basename(p): what follows the last "/"
Basename(p) == Split(p)[Len(Split(p))]

\* lines 69-75: self.filename.  The constructor goes on to seek in input_file
\* (line 81), so that the extractors there are were made on streams.
Filename(f) ==
    IF f.name # NoSuch THEN f.name
    ELSE IF f.path # NoSuch THEN Basename(f.path)
    ELSE InputFileObject

\* the column names __call__ and fingerprint look up
F_Account == ALL_FIELDS[2]
F_AccountNumber == ALL_FIELDS[3]
F_Action == ALL_FIELDS[4]
F_Description == ALL_FIELDS[6]
F_Type == ALL_FIELDS[7]
F_Currency == ALL_FIELDS[10]
F_Amount == ALL_FIELDS[17]

\* a transaction line with all 18 columns
GoodRow ==
    << <<"1", "/", "5", "/", "2", "0", "2", "4">>,
       <<"R", "o", "t", "h", " ", "I", "R", "A", " ", " ", "*", "*", "*", "*", "1", "2", "3", "4">>,
       <<"X", "1", "2", "3", "4", "5", "6", "7", "8">>,
       <<"B", "U", "Y">>,
       <<"V", "T", "I">>,
       <<"E", "T", "F">>,
       <<"C", "a", "s", "h">>,
       <<>>,
       <<>>,
       <<"U", "S", "D">>,
       <<>>,
       <<>>,
       <<>>,
       <<>>,
       <<>>,
       <<>>,
       <<"1", "2", ".", "5", "0">>,
       <<"1", "/", "8", "/", "2", "0", "2", "4">> >>

\* a transaction line with a 19th column and an empty Amount
LongRow ==
    << <<"1", "2", "/", "3", "1", "/", "2", "0", "2", "3">>,
       <<"I", "R", "A">>,
       <<"Z", "9", "9">>,
       <<"D", "I", "V">>,
       <<>>,
       <<>>,
       <<"M", "a", "r", "g", "i", "n">>,
       <<>>,
       <<>>,
       <<"U", "S", "D">>,
       <<>>,
       <<>>,
       <<>>,
       <<>>,
       <<>>,
       <<>>,
       <<>>,
       <<>>,
       <<"x">> >>

\* a transaction line cut after its 16th column: Amount and Settlement Date are missing
ShortRow ==
    << <<"2", "/", "2", "9", "/", "2", "0", "2", "4">>,
       <<"J", "o", "i", "n", "t">>,
       <<"1", "2", "3">>,
       <<"F", "E", "E">>,
       <<>>,
       <<>>,
       <<"C", "a", "s", "h">>,
       <<>>,
       <<>>,
       <<"U", "S", "D">>,
       <<>>,
       <<>>,
       <<>>,
       <<>>,
       <<>>,
       <<>> >>

\* a line whose Run Date has the shape of a date and names no calendar day
BadDateRow ==
    << <<"2", "/", "3", "0", "/", "2", "0", "2", "3">>,
       <<"I", "R", "A">>,
       <<"Z", "9", "9">>,
       <<"B", "U", "Y">>,
       <<>>,
       <<>>,
       <<"C", "a", "s", "h">>,
       <<>>,
       <<>>,
       <<"U", "S", "D">>,
       <<>>,
       <<>>,
       <<>>,
       <<>>,
       <<>>,
       <<>>,
       <<"1">>,
       <<>> >>

\* the header line of an export: the column names themselves
HeaderRow == ALL_FIELDS

RowPool == {HeaderRow, GoodRow, LongRow, ShortRow, BadDateRow}

\* the files of at most n records
Files(n) == UNION {[1..k -> RowPool] : k \in 0..n}

----------------------------------------------------------------------------
(* Reading the stream: _create_reader and _iter. *)

\* a reader made without rewinding the stream
SeekNowhere(p) == p

\* line 81: input_file.seek(os.SEEK_SET, 0), that is seek(0, 0): the position
\* the stream is at afterwards, whatever position p it was at
SeekStart(p) == 0

\* lines 82-88: csv.DictReader with fieldnames given, so that no line of the
\* file is read as a header and reader.fieldnames (line 90) is ALL_FIELDS
ReaderFieldnames == ALL_FIELDS

\* csv.DictReader.__next__ for one record: the dict zip(fieldnames, record),
\* restval = None under each name the record has no column for, and the surplus
\* columns under the key restkey = None (rest; empty stands for no such key).
\* The dict is held as its values in the order of its keys, the fieldnames.
DictRow(names, record) ==
    [vals |-> [k \in 1..Len(names) |-> IF k <= Len(record) THEN record[k] ELSE None],
     rest |-> IF Len(record) > Len(names)
              THEN SubSeq(record, Len(names) + 1, Len(record)) ELSE <<>>]

\* row.get(name, default) on a dict d whose keys are names
Get(d, names, name, default) ==
    IF \E k \in 1..Len(names) : names[k] = name
    THEN d.vals[CHOOSE k \in 1..Len(names) : names[k] = name]
    ELSE default

\* lines 97-103: the row filter of _iter
Accepts(d, names) ==
    LET date == Get(d, names, DATE_FIELD, <<>>)
    IN  MatchesDatePattern(date) /\ parse_date(date).ok

\* record k of file s reaches the filter (csv.DictReader skips records without
\* columns) and passes it
AcceptedAt(s, names, k) == s[k] # <<>> /\ Accepts(DictRow(names, s[k]), names)

\* lines 96-101: the record at which _iter yields next when the stream stands
\* at position p; 0 when it reaches the end of the stream without yielding
RECURSIVE NextAccepted(_, _, _)
NextAccepted(s, names, p) ==
    IF p >= Len(s) THEN 0
    ELSE IF AcceptedAt(s, names, p + 1) THEN p + 1
    ELSE NextAccepted(s, names, p + 1)

\* lines 77-78: len(list(self._iter())) over the file s
RowCount(s) == Cardinality({k \in 1..Len(s) : AcceptedAt(s, ReaderFieldnames, k)})

----------------------------------------------------------------------------
(* Building a Transaction: the body of the loop of __call__. *)

\* the negative index of the i-th row counted without the row count
ReversedLinenoFromStart(i, rc) == 0 - (i + 1)

\* line 167
ReversedLineno(i, rc) == i - rc

\* line 161: s[-4:]
LastFour(s) == IF Len(s) <= 4 THEN s ELSE SubSeq(s, Len(s) - 3, Len(s))

DateOf(p) == [year |-> p.year, month |-> p.month, day |-> p.day]

\* lines 159-178: the Transaction of row d from its account name, its amount
\* (as parse_to_decimal gives it), its account number and its date.  A None
\* under Account (re.sub, line 15), Amount (decimal.Decimal, line 29) or
\* Account Number (the slice of line 161) raises TypeError.
BuildTransaction(d, names, i, rc, fname, account, amount, number, run_date) ==
    IF account = None \/ amount.raised # "" \/ number = None
    THEN [raised |-> "TypeError", txn |-> <<>>]
    ELSE [raised |-> "",
          txn |-> [extractor |-> EXTRACTOR_NAME,
                   file |-> fname,
                   lineno |-> i + 1,
                   reversed_lineno |-> ReversedLineno(i, rc),
                   source_account |-> beanify_account(account),
                   date |-> run_date,
                   post_date |-> run_date,
                   desc |-> Get(d, names, F_Action, <<>>),
                   bank_desc |-> Get(d, names, F_Description, <<>>),
                   amount |-> amount.value,
                   currency |-> Get(d, names, F_Currency, <<>>),
                   type |-> Get(d, names, F_Type, <<>>),
                   last_four_digits |-> LastFour(number),
                   extra |-> d]]

\* lines 135-178 for the accepted row d, the i-th (from 0) of the traversal, in
\* an extractor whose _row_count is rc and whose filename is fname.  names are
\* the keys of d.
ProcessRow(d, names, i, rc, fname) ==
    BuildTransaction(d, names, i, rc, fname,
        Get(d, names, F_Account, <<>>),
        parse_to_decimal(Get(d, names, F_Amount, <<"0", ".", "0">>)),
        Get(d, names, F_AccountNumber, <<>>),
        DateOf(parse_date(Get(d, names, DATE_FIELD,
                   <<"0", "1", "/", "0", "1", "/", "1", "9", "7", "0">>))))

----------------------------------------------------------------------------
(* fingerprint *)

\* hashlib.sha256 over the utf8 bytes of the string b, as a collision-free
\* function of b
Sha256(b) == <<"sha256:">> \o b

NoDate == [year |-> 0, month |-> 0, day |-> 0]
FpUnset == [kind |-> "unset", exc |-> "", starting_date |-> NoDate, first_row_hash |-> <<>>]
FpAbsent == [kind |-> "absent", exc |-> "", starting_date |-> NoDate, first_row_hash |-> <<>>]

\* lines 120-130 for the first accepted row d: row[field].encode raises
\* AttributeError on None (the fallback of lines 125-126 is never taken: a date
\* object is never false)
FingerprintOf(d, names) ==
    IF \E k \in 1..Len(names) : Get(d, names, names[k], <<>>) = None
    THEN [kind |-> "raised", exc |-> "AttributeError",
          starting_date |-> NoDate, first_row_hash |-> <<>>]
    ELSE [kind |-> "fingerprint", exc |-> "",
          starting_date |-> DateOf(parse_date(Get(d, names, DATE_FIELD, <<>>))),
          first_row_hash |->
              Sha256(Concat([k \in 1..Len(names) |-> Get(d, names, names[k], <<>>)]))]

----------------------------------------------------------------------------
(* The extractor. *)

ExUnset == [set |-> FALSE, state |-> "none", out |-> <<>>, err |-> ""]

\* lines 63-78: the extractor just constructed on the file s.  The pre-scan of
\* lines 77-78 rewinds the stream, drains _iter to the end of the file and
\* keeps the number of rows it yielded.
Constructed(s, f) ==
    /\ stream = s
    /\ filename = Filename(f)
    /\ stream0 = s
    /\ pos = Len(s)
    /\ fieldnames = ReaderFieldnames
    /\ row_count = RowCount(s)
    /\ g_state = "none" /\ g_i = 0 /\ g_out = <<>> /\ g_err = "" /\ g_mixed = FALSE
    /\ fp = FpUnset /\ det = "unset"
    /\ first_ex = ExUnset /\ first_fp = FpUnset
    /\ abandoned = FALSE
    /\ edits = 0

NormalizerIdle ==
    /\ arg = <<>> /\ op = "none" /\ b1 = <<>> /\ b2 = <<>>
    /\ dec = [raised |-> "", value |-> DecZero]

Init == (\E s \in Files(MaxRows), f \in InputFiles : Constructed(s, f)) /\ NormalizerIdle

\* lines 105-110: detect()
Detect ==
    /\ det' = IF fieldnames = ALL_FIELDS THEN "true" ELSE "false"
    /\ UNCHANGED <<stream, pos, stream0, fieldnames, row_count, filename, g_state, g_i,
                   g_out, g_err, g_mixed, fp, first_ex, first_fp, abandoned, edits>>
    /\ UNCHANGED pvars

\* lines 114-130: what fingerprint() returns when the first row _iter accepts
\* is record k of the stream (0: there is none)
FingerprintAt(k) ==
    IF k = 0 THEN FpAbsent
    ELSE FingerprintOf(DictRow(ReaderFieldnames, stream[k]), ReaderFieldnames)

\* fingerprint() has read up to record k and returns r
FingerprintReturns(k, r) ==
    /\ fieldnames' = ReaderFieldnames
    /\ pos' = IF k = 0 THEN Len(stream) ELSE k
    /\ fp' = r
    /\ first_fp' = IF first_fp.kind = "unset" THEN r ELSE first_fp
    /\ g_mixed' = (g_mixed \/ g_state = "suspended")
    /\ UNCHANGED <<stream, stream0, row_count, filename, g_state, g_i, g_out, g_err,
                   det, first_ex, abandoned, edits>>
    /\ UNCHANGED pvars

\* fingerprint() reads up to record k
FingerprintReads(k) == FingerprintReturns(k, FingerprintAt(k))

\* lines 112-130: fingerprint().  _iter rewinds the stream and reads up to the
\* first row it accepts; the stream is left there.  A suspended extract()
\* generator shares the stream and finds it moved: resumed, it reads rows again.
Fingerprint == FingerprintReads(NextAccepted(stream, ReaderFieldnames, SeekStart(pos)))

\* the count enumerate(it) of line 134 carries over from an earlier generator
EnumerateCarried == g_i

\* line 134: enumerate(it) counts from 0 in every generator
EnumerateStart == 0

\* line 132: calling the extractor makes a new generator, which runs nothing
\* until it is first advanced; the generator held before is dropped
Extract ==
    /\ g_state' = "created"
    /\ g_i' = EnumerateStart
    /\ g_out' = <<>>
    /\ g_err' = ""
    /\ g_mixed' = FALSE
    /\ abandoned' = (abandoned \/ g_state = "suspended")
    /\ UNCHANGED <<stream, pos, stream0, fieldnames, row_count, filename, fp, det,
                   first_ex, first_fp, edits>>
    /\ UNCHANGED pvars

\* the generator, reading on from position p, has come to record k (0: to the
\* end of the stream) and made r of it; it is then in state st
GeneratorStep(p, k, r, st) ==
    /\ fieldnames' = IF g_state = "created" THEN ReaderFieldnames ELSE fieldnames
    /\ pos' = IF k = 0 THEN (IF p > Len(stream) THEN p ELSE Len(stream)) ELSE k
    /\ g_state' = st
    /\ g_out' = IF st = "suspended" THEN Append(g_out, r.txn) ELSE g_out
    /\ g_err' = IF st = "raised" THEN r.raised ELSE ""
    /\ g_i' = IF st = "suspended" THEN g_i + 1 ELSE g_i
    /\ first_ex' = IF st \in {"done", "raised"} /\ ~g_mixed /\ ~first_ex.set
                   THEN [set |-> TRUE, state |-> st, out |-> g_out,
                         err |-> IF st = "raised" THEN r.raised ELSE ""]
                   ELSE first_ex
    /\ UNCHANGED <<stream, stream0, row_count, filename, g_mixed, fp, det, first_fp,
                   abandoned, edits>>
    /\ UNCHANGED pvars

\* lines 134-178: the loop body on record k
GeneratorRow(p, k, r) ==
    GeneratorStep(p, k, r, IF k = 0 THEN "done"
                           ELSE IF r.raised # "" THEN "raised" ELSE "suspended")

\* lines 96-101: the generator reads on from position p to record k
GeneratorReads(p, k) ==
    GeneratorRow(p, k,
        IF k = 0 THEN [raised |-> "", txn |-> <<>>]
        ELSE ProcessRow(DictRow(ReaderFieldnames, stream[k]), ReaderFieldnames,
                        g_i, row_count, filename))

\* the generator reads on from position p with the reader it made (the reader
\* keeps the fieldnames it was made with)
GeneratorFrom(p) == GeneratorReads(p, NextAccepted(stream, ReaderFieldnames, p))

\* lines 133-178: one next() on the generator.  The first one runs _iter up to
\* its first yield, rewinding the stream (line 94); a later one resumes the
\* loop of line 96 where the stream now stands.  The generator yields the
\* Transaction of the next accepted row, ends at the end of the stream, or is
\* ended by the exception raised while building the Transaction.  A generator
\* whose stream is moved back again and again yields without end: it is
\* followed up to MaxYield Transactions.
ExtractNext ==
    /\ g_state \in {"created", "suspended"}
    /\ g_mixed => Len(g_out) < MaxYield
    /\ GeneratorFrom(IF g_state = "created" THEN SeekStart(pos) ELSE pos)

\* The file changes between traversals: a record is written after its last
\* one, before its first one, or its last record is cut off.  A change is
\* placed before the first next() of the traversal that follows it (a generator
\* just created has read nothing yet), so that a generator that has ended has
\* read the file as it is now.
Changed(s) ==
    /\ edits < MaxEdits
    /\ g_state \in {"none", "created"}
    /\ stream' = s
    /\ edits' = edits + 1
    /\ first_ex' = ExUnset
    /\ first_fp' = FpUnset
    /\ UNCHANGED <<pos, stream0, fieldnames, row_count, filename, g_state, g_i, g_out,
                   g_err, g_mixed, fp, det, abandoned>>
    /\ UNCHANGED pvars

AppendRow == \E r \in RowPool : Changed(Append(stream, r))

PrependRow == \E r \in RowPool : Changed(<<r>> \o stream)

RemoveLastRow == stream # <<>> /\ Changed(SubSeq(stream, 1, Len(stream) - 1))

\* lines 132-178 run to the end in one go: the generator drained from position
\* p of file s, with i rows yielded already (acc), _row_count rc and filename
\* fname
RECURSIVE Drain(_, _, _, _, _, _)

\* the generator has made r of record k
DrainRow(s, k, i, rc, fname, acc, r) ==
    IF r.raised # "" THEN [state |-> "raised", out |-> acc, err |-> r.raised]
    ELSE Drain(s, k, i + 1, rc, fname, Append(acc, r.txn))

\* the generator has read on to record k (0: to the end of the stream)
DrainAt(s, k, i, rc, fname, acc) ==
    IF k = 0 THEN [state |-> "done", out |-> acc, err |-> ""]
    ELSE DrainRow(s, k, i, rc, fname, acc,
             ProcessRow(DictRow(ReaderFieldnames, s[k]), ReaderFieldnames, i, rc, fname))

Drain(s, p, i, rc, fname, acc) ==
    DrainAt(s, NextAccepted(s, ReaderFieldnames, p), i, rc, fname, acc)

\* lines 63-78 and 132-178: extract() drained on an extractor just constructed
\* on the input file of this one, holding the records s
FreshExtract(s) == Drain(s, 0, EnumerateStart, RowCount(s), filename, <<>>)

\* the traversals of one extractor over a file that stays as it is
Next == Detect \/ Fingerprint \/ Extract \/ ExtractNext

Spec == Init /\ [][Next]_vars

\* extract() on an extractor whose file changes after construction
NextEdit == AppendRow \/ PrependRow \/ RemoveLastRow \/ Extract \/ ExtractNext

InitEdit ==
    (\E s \in Files(MaxBaseRows), f \in InputFiles : Constructed(s, f)) /\ NormalizerIdle

SpecEdit == InitEdit /\ [][NextEdit]_vars

----------------------------------------------------------------------------
(* The normalizer functions on their own. *)

PureAlphabet == {"a", "1", ".", "-", " ", "\t", "*", "<U+0662>", "<U+00A0>"}

\* the strings over PureAlphabet of length at most n
Strings(n) == UNION {[1..k -> PureAlphabet] : k \in 0..n}

\* the account name of the example of the specification
RothIRA == GoodRow[2]

InitPure ==
    /\ Constructed(<<>>, NamelessStream)
    /\ arg \in Strings(MaxStrLen) \cup {RothIRA, None}
    /\ op = "none" /\ b1 = <<>> /\ b2 = <<>>
    /\ dec = [raised |-> "", value |-> DecZero]

\* beanify_account on a string
ApplyBeanify ==
    /\ op = "none" /\ arg # None
    /\ op' = "beanify"
    /\ b1' = beanify_account(arg)
    /\ UNCHANGED <<arg, b2, dec>>
    /\ UNCHANGED xvars

\* beanify_account on its own result
ApplyBeanifyAgain ==
    /\ op = "beanify"
    /\ op' = "beanify2"
    /\ b2' = beanify_account(b1)
    /\ UNCHANGED <<arg, b1, dec>>
    /\ UNCHANGED xvars

\* parse_to_decimal on a value of a raw row
ApplyDecimal ==
    /\ op = "none"
    /\ op' = "decimal"
    /\ dec' = parse_to_decimal(arg)
    /\ UNCHANGED <<arg, b1, b2>>
    /\ UNCHANGED xvars

NextPure == ApplyBeanify \/ ApplyBeanifyAgain \/ ApplyDecimal

SpecPure == InitPure /\ [][NextPure]_vars

----------------------------------------------------------------------------
(* What the claims speak of. *)

\* the extract() generator has ended, by StopIteration or by an exception
Ended == g_state \in {"done", "raised"}

\* the ended generator was advanced without another traversal in between
Undisturbed == Ended /\ ~g_mixed

\* row j of file s is an accepted row
AcceptedRow(s, j) == AcceptedAt(s, ALL_FIELDS, j)

\* the place of accepted row j of file s among the accepted rows of s
Rank(s, j) == Cardinality({h \in 1..j : AcceptedRow(s, h)})

\* the k-th accepted row of file s
KthAccepted(s, k) == CHOOSE j \in 1..Len(s) : AcceptedRow(s, j) /\ Rank(s, j) = k

\* out, the Transactions of an extract() over file s, has one for row j
EmittedFor(s, out, j) == AcceptedRow(s, j) /\ Rank(s, j) <= Len(out)

\* the reversed_lineno of that Transaction
RevOf(s, out, j) == out[Rank(s, j)].reversed_lineno

\* the file is the file of construction with m accepted rows written after it
GrownByAppending(m) ==
    /\ m >= 1
    /\ Len(stream) = Len(stream0) + m
    /\ SubSeq(stream, 1, Len(stream0)) = stream0
    /\ \A j \in (Len(stream0) + 1)..Len(stream) : AcceptedRow(stream, j)

\* the file is the file of construction with m accepted rows written before it
GrownByPrepending(m) ==
    /\ m >= 1
    /\ Len(stream) = Len(stream0) + m
    /\ SubSeq(stream, m + 1, Len(stream)) = stream0
    /\ \A j \in 1..m : AcceptedRow(stream, j)

----------------------------------------------------------------------------
(* The claims. *)

\* C1: detect() returns true exactly when the first line of the file is the
\* 18-column schema, and false for any other header or for no header at all.
C1_DetectByHeader ==
    det # "unset" => (det = "true" <=> (stream # <<>> /\ stream[1] = ALL_FIELDS))

\* the generator has ended with one Transaction for each of the N accepted
\* rows of the file, in file order and numbered from both ends
OnePerAcceptedRow(N) ==
    /\ g_state = "done"
    /\ Len(g_out) = N
    /\ \A k \in 1..Len(g_out) :
           /\ g_out[k].extra = DictRow(ALL_FIELDS, stream[KthAccepted(stream, k)])
           /\ g_out[k].lineno = k
           /\ g_out[k].reversed_lineno = k - 1 - N
           /\ g_out[k].reversed_lineno + N + 1 = g_out[k].lineno
           /\ g_out[k].reversed_lineno \in (0 - N)..(0 - 1)

\* C2: on an unchanged stream, an undisturbed extract() drained to its end has
\* yielded exactly one Transaction per accepted row, in file order, the k-th of
\* the N with lineno = k and reversed_lineno = k - 1 - N (so that
\* reversed_lineno + N + 1 = lineno and reversed_lineno is in -N..-1).
C2_OnePerAcceptedRow ==
    (Undisturbed /\ stream = stream0) => OnePerAcceptedRow(RowCount(stream))

\* C3: a file with an accepted row of fewer or more than 18 columns raises
\* nowhere: fingerprint() returns, and an undisturbed extract() drains to its
\* end with a Transaction for every accepted row.
C3_NoRaiseOnColumnCount ==
    (\E j \in 1..Len(stream) :
         AcceptedRow(stream, j) /\ Len(stream[j]) # Len(ALL_FIELDS)) =>
        /\ fp.kind # "raised"
        /\ g_state # "raised"
        /\ (Undisturbed => Len(g_out) = RowCount(stream))

\* C4: parse_to_decimal returns for every value a raw row can hold, the absent
\* value included, and returns exactly zero for every input that is no number.
C4_DecimalNeverRaises ==
    op = "decimal" =>
        /\ dec.raised = ""
        /\ (arg = None \/ ~Decimal(arg).ok) => dec.value = DecZero

\* old and new being what fresh extractors yield over the file of construction
\* and over the file as it is now, grown at its end: every row with a
\* Transaction in old has one in new, with the same reversed_lineno
KeptAfterAppending(old, new) ==
    \A j \in 1..Len(stream0) :
        EmittedFor(stream0, old, j) =>
            /\ EmittedFor(stream, new, j)
            /\ RevOf(stream, new, j) = RevOf(stream0, old, j)

\* the same for a file grown by m rows at its start: a row with a Transaction
\* in old and in new has the same reversed_lineno in both
KeptAfterPrepending(m, old, new) ==
    \A j \in 1..Len(stream0) :
        (EmittedFor(stream0, old, j) /\ EmittedFor(stream, new, m + j)) =>
            RevOf(stream, new, m + j) = RevOf(stream0, old, j)

\* a row of the file of construction has a Transaction in old, and in new
\* after one row written before it, there with reversed_lineno -1
KeptLastRow(old, new) ==
    \E j \in 1..Len(stream0) :
        /\ EmittedFor(stream0, old, j)
        /\ EmittedFor(stream, new, 1 + j)
        /\ RevOf(stream, new, 1 + j) = 0 - 1

\* C5: a row of file F keeps its reversed_lineno when accepted rows are
\* appended to F (fresh extractors over F and over the grown file).
C5_StableUnderAppend ==
    \A m \in 1..Len(stream) :
        GrownByAppending(m) =>
            KeptAfterAppending(FreshExtract(stream0).out, FreshExtract(stream).out)

\* C5, amended: a row of file F keeps its reversed_lineno when accepted rows
\* are written before the rows of F: the Transactions that fresh extractors
\* over F and over the grown file yield for that row agree on it.
C5_StableUnderPrepend ==
    \A m \in 1..Len(stream) :
        GrownByPrepending(m) =>
            KeptAfterPrepending(m, FreshExtract(stream0).out, FreshExtract(stream).out)

\* C5, witness: an accepted row was written before a file whose row still gets
\* its Transaction, with the reversed_lineno it had.
C5_Witness ==
    /\ edits >= 1
    /\ GrownByPrepending(1)
    /\ KeptLastRow(FreshExtract(stream0).out, FreshExtract(stream).out)

\* the last fingerprint() returned the Fingerprint of record k of the file, or
\* nothing when k = 0
FingerprintOfRow(k) ==
    IF k = 0 THEN fp.kind = "absent"
    ELSE /\ fp.kind = "fingerprint"
         /\ fp.first_row_hash = Sha256(Concat(DictRow(ALL_FIELDS, stream[k]).vals))
         /\ fp.starting_date = DateOf(parse_date(stream[k][1]))

\* C6: fingerprint() is absent exactly when the file has no accepted row, and
\* is otherwise the Fingerprint of the first accepted row: the digest of its 18
\* values concatenated in schema order, and its parsed Run Date.
C6_FingerprintOfFirstRow ==
    fp.kind # "unset" => FingerprintOfRow(NextAccepted(stream, ALL_FIELDS, 0))

\* what C7 says of a name: the characters that are neither allowed nor
\* whitespace go, and each run of whitespace becomes one hyphen
RECURSIVE DropNeitherAllowedNorWhitespace(_)
DropNeitherAllowedNorWhitespace(s) ==
    IF s = <<>> THEN <<>>
    ELSE IF AllowedChar(Head(s)) \/ Head(s) \in WhitespaceClass
    THEN <<Head(s)>> \o DropNeitherAllowedNorWhitespace(Tail(s))
    ELSE DropNeitherAllowedNorWhitespace(Tail(s))

Hyphenated(s) ==
    SpaceToHyphen(CollapseSpaces(WhitespaceToSpace(DropNeitherAllowedNorWhitespace(s))))

\* C7: beanify_account drops the characters that are neither allowed nor
\* whitespace and turns each run of whitespace between retained characters
\* into one hyphen ("Roth IRA  ****1234" gives "Roth-IRA-1234").
C7_WhitespaceToHyphen ==
    (/\ op \in {"beanify", "beanify2"}
     /\ arg # <<>>
     /\ AllowedChar(arg[1]) /\ AllowedChar(arg[Len(arg)])) => b1 = Hyphenated(arg)

\* C8: every traversal starts over: an undisturbed extract() drained to its end
\* has the outcome of the first one on this content, whatever traversals were
\* completed or abandoned before and wherever they left the stream, and
\* fingerprint() returns what it returned the first time.
C8_Restartable ==
    /\ Undisturbed =>
           /\ first_ex.set
           /\ g_state = first_ex.state
           /\ g_out = first_ex.out
           /\ g_err = first_ex.err
    /\ fp.kind # "unset" => fp = first_fp

\* C8, witness: after a generator was abandoned partly drained and after a
\* fingerprint() that left the stream inside the file, an extract() drained to
\* its end with two Transactions.
C8_Witness ==
    /\ abandoned
    /\ fp.kind = "fingerprint"
    /\ g_state = "done" /\ ~g_mixed
    /\ Len(g_out) >= 2
    /\ first_ex.set

\* the generator ended as the drained extract() f did
SameAs(f) == g_state = f.state /\ g_err = f.err /\ g_out = f.out

\* the generator ended as the drained extract() f did, but for the
\* reversed_lineno of its Transactions, which count back from n rows
SameButReversedLineno(f, n) ==
    /\ g_state = f.state
    /\ g_err = f.err
    /\ Len(g_out) = Len(f.out)
    /\ \A k \in 1..Len(g_out) :
           g_out[k] = [f.out[k] EXCEPT !.reversed_lineno = k - 1 - n]

\* C9: after the file changed, extract() on the extractor constructed before
\* the change yields what a fresh extractor on the file as it is now yields,
\* lineno and reversed_lineno included.
C9_AsFreshExtractor == Ended => SameAs(FreshExtract(stream))

\* C9, amended: after the file changed, extract() on the extractor constructed
\* before the change yields what a fresh extractor on the file as it is now
\* yields, except for reversed_lineno, which is lineno - 1 - the number of
\* accepted rows the file had at construction.
C9_FreshButRowCount == Ended => SameButReversedLineno(FreshExtract(stream), RowCount(stream0))

\* C9, witness: the number of accepted rows changed after construction and an
\* extract() then drained to its end with a Transaction.
C9_Witness ==
    /\ edits >= 1
    /\ RowCount(stream) # RowCount(stream0)
    /\ g_state = "done"
    /\ Len(g_out) >= 1

\* C10: beanify_account applied to its own result returns that result.
C10_Idempotent == op = "beanify2" => b2 = b1

\* C10, witness: beanify_account was applied twice to a name it changes and
\* does not empty.
C10_Witness == op = "beanify2" /\ b1 # arg /\ b1 # <<>>

====
